---- MODULE Spec2Model ----
(***************************************************************************)
(* Model of fastapi-agent-service/main.py: the /health, /login and /chat   *)
(* routes, the in-memory token mapping app.state.active_tokens, the two    *)
(* guardrail wrappers and the agent invocation with its rule-based         *)
(* fallback.                                                               *)
(*                                                                         *)
(* Python values are tagged records: None is [t |-> "None"], a str is      *)
(* [t |-> "str", s |-> <<atoms>>] where the atoms of a text are its        *)
(* whitespace characters and its words.  The third-party services (the     *)
(* guardrail validators, the tracing client's auth_check, the agent        *)
(* runner) are inputs of a request, drawn from the sets below.             *)
(***************************************************************************)
EXTENDS Integers, Sequences, FiniteSets, TLC

VARIABLES
    AGENT_API_USERNAME,  \* os.getenv("AGENT_API_USERNAME"), fixed at start-up
    AGENT_API_PASSWORD,  \* os.getenv("AGENT_API_PASSWORD"), fixed at start-up
    agent_runner,        \* build_agent_runner(), fixed at start-up
    active_tokens,       \* app.state.active_tokens: token -> username
    uuids,               \* how many uuid4() values have been drawn
    loginPc,             \* per handler thread: position inside login()
    loginTok,            \* per handler thread: the local variable token
    loginCred,           \* per handler thread: the parameter credentials
    returned,            \* history: <<token, username>> of every LoginResponse
    resp                 \* the request handled last: its inputs and outcome

vars == <<AGENT_API_USERNAME, AGENT_API_PASSWORD, agent_runner, active_tokens,
          uuids, loginPc, loginTok, loginCred, returned, resp>>

(* ------------------------------ bounds -------------------------------- *)

\* uuid4() is drawn at most MaxLogins times.
MaxLogins == 2

\* Handler threads of the server's thread pool that may be inside login().
Threads == {"t1", "t2"}

(* --------------------------- Python values ---------------------------- *)

PyNone == [t |-> "None"]

Str(s) == [t |-> "str", s |-> s]

\* Python truthiness of an Optional[str]: None and "" are falsy.
Truthy(v) == v.t = "str" /\ v.s # <<>>

IsWhitespace(a) == a \in {" ", "\n"}

\* str.strip(): drop leading and trailing whitespace.
RECURSIVE lstrip(_)
lstrip(s) ==
    IF s # <<>> /\ IsWhitespace(Head(s)) THEN lstrip(Tail(s)) ELSE s

RECURSIVE rstrip(_)
rstrip(s) ==
    IF s # <<>> /\ IsWhitespace(s[Len(s)])
    THEN rstrip(SubSeq(s, 1, Len(s) - 1))
    ELSE s

\* Variant of strip: only the leading whitespace is dropped (str.lstrip).
strip_left(s) == lstrip(s)

strip(s) == rstrip(lstrip(s))

\* str.lower() on one atom; the mixed-case words of the inputs.
LowerAtom(a) ==
    CASE a = "Streamlit" -> "streamlit"
      [] a = "FastAPI" -> "fastapi"
      [] a = "Deploy" -> "deploy"
      [] OTHER -> a

lower(s) == [i \in 1..Len(s) |-> LowerAtom(s[i])]

\* `word in text` for a keyword that is one atom of the text.
Contains(s, word) == \E i \in 1..Len(s) : s[i] = word

\* "\n".join(chunks)
RECURSIVE join(_)
join(chunks) ==
    IF chunks = <<>> THEN <<>>
    ELSE IF Len(chunks) = 1 THEN Head(chunks)
    ELSE Head(chunks) \o <<"\n">> \o join(Tail(chunks))

\* str(x) for the values that occur as content.
PyStr(v) ==
    CASE v.t = "str" -> v.s
      [] v.t = "None" -> <<"None">>
      [] OTHER -> <<"<repr>">>

(* ------------------------ start-up configuration ---------------------- *)

OPENAI_MODEL == "gpt-4o-mini"

\* What the LangGraph dependencies do at import time: whether OPENAI_API_KEY
\* is set, whether build_tools() yields a tool, whether ChatOpenAI /
\* create_react_agent construct without raising.
StartupEnvs ==
    [openai_api_key : {PyNone, Str(<<"sk-key">>)},
     tools : BOOLEAN,
     creates : BOOLEAN]

build_agent_runner(env) ==
    IF ~Truthy(env.openai_api_key) THEN PyNone
    ELSE IF ~env.tools THEN PyNone
    ELSE IF env.creates THEN [t |-> "runner"]
    ELSE PyNone

(* ------------------------------ the agent ----------------------------- *)

\* The chunks _content_to_text collects from a list content.
RECURSIVE Chunks(_)
Chunks(items) ==
    IF items = <<>> THEN <<>>
    ELSE LET item == Head(items)
             rest == Chunks(Tail(items))
         IN IF item.t = "dict" /\ item.hasText THEN <<PyStr(item.text)>> \o rest
            ELSE IF item.t = "str" THEN <<item.s>> \o rest
            ELSE rest

_content_to_text(content) ==
    IF content.t = "str" THEN content
    ELSE IF content.t = "list" THEN
        LET chunks == Chunks(content.items)
        IN IF chunks # <<>> THEN Str(strip(join(chunks))) ELSE PyNone
    ELSE IF content.t = "dict" /\ content.hasText THEN Str(PyStr(content.text))
    ELSE IF content.t # "None" THEN Str(PyStr(content))
    ELSE PyNone

\* getattr(last_message, "content", last_message)
ContentOf(last_message) ==
    IF last_message.t = "msg" THEN last_message.content ELSE last_message

\* Variant of run_agent: a failed invocation is retried once before giving up.
run_agent_retry(runner, message, system_prompt, invocation) ==
    IF runner = PyNone THEN
        [value |-> PyNone, calls |-> <<"CallbackHandler">>]
    ELSE IF invocation.t = "raise" THEN
        [value |-> PyNone,
         calls |-> <<"CallbackHandler", "agent_runner.invoke",
                     "agent_runner.invoke">>]
    ELSE
        LET result == invocation.result
            messages == IF result.t = "dict" /\ result.hasMessages
                        THEN result.messages ELSE <<>>
        IN [value |-> IF messages = <<>> THEN PyNone
                      ELSE _content_to_text(ContentOf(messages[Len(messages)])),
            calls |-> <<"CallbackHandler", "agent_runner.invoke">>]

\* run_agent: the reply, or None, and the calls it made.  `invocation` is
\* what agent_runner.invoke does for this request.
run_agent(runner, message, system_prompt, invocation) ==
    IF runner = PyNone THEN
        [value |-> PyNone, calls |-> <<"CallbackHandler">>]
    ELSE IF invocation.t = "raise" THEN
        [value |-> PyNone, calls |-> <<"CallbackHandler", "agent_runner.invoke">>]
    ELSE
        LET result == invocation.result
            messages == IF result.t = "dict" /\ result.hasMessages
                        THEN result.messages ELSE <<>>
        IN [value |-> IF messages = <<>> THEN PyNone
                      ELSE _content_to_text(ContentOf(messages[Len(messages)])),
            calls |-> <<"CallbackHandler", "agent_runner.invoke">>]

OfflineStreamlit == <<"Streamlit reruns your script after every click. Keep anything you need in st.session_state.">>
OfflineFastAPI == <<"FastAPI ships with automatic docs at /docs. Try them once the server is running!">>
OfflineLangfuse == <<"Langfuse links inputs and outputs. Set the keys to see traces pop up in the dashboard.">>
OfflineDeploy == <<"Deploy the API first, then point your Streamlit app to the live URL to share it.">>
OfflineDefault == <<"I am in offline mode. Ask about Streamlit, FastAPI, or Langfuse to see directed tips.">>

build_offline_reply(message) ==
    LET text == lower(message)
    IN IF Contains(text, "streamlit") THEN OfflineStreamlit
       ELSE IF Contains(text, "fastapi") THEN OfflineFastAPI
       ELSE IF Contains(text, "langfuse") \/ Contains(text, "monitor")
            THEN OfflineLangfuse
       ELSE IF Contains(text, "deploy") THEN OfflineDeploy
       ELSE OfflineDefault

LanggraphSource == <<"langgraph:", OPENAI_MODEL>>
RuleBasedSource == <<"rule-based">>

\* Variant of invoke_agent: `if agent_reply is not None` instead of
\* `if agent_reply`, so an empty text counts as an answer.
invoke_agent_not_none(runner, message, session_id, system_prompt, invocation) ==
    LET ran == run_agent(runner, message, system_prompt, invocation)
        agent_reply == ran.value
        calls == <<"start_as_current_span">> \o ran.calls
    IN IF agent_reply # PyNone
       THEN [reply |-> agent_reply, source |-> LanggraphSource,
             calls |-> calls, input |-> message]
       ELSE [reply |-> Str(build_offline_reply(message)),
             source |-> RuleBasedSource,
             calls |-> calls, input |-> message]

\* invoke_agent: (reply, source), and the calls made inside the trace span.
invoke_agent(runner, message, session_id, system_prompt, invocation) ==
    LET ran == run_agent(runner, message, system_prompt, invocation)
        agent_reply == ran.value
        calls == <<"start_as_current_span">> \o ran.calls
    IN IF Truthy(agent_reply)
       THEN [reply |-> agent_reply, source |-> LanggraphSource,
             calls |-> calls, input |-> message]
       ELSE [reply |-> Str(build_offline_reply(message)),
             source |-> RuleBasedSource,
             calls |-> calls, input |-> message]

(* ----------------------------- guardrails ----------------------------- *)

GUARDRAILS_ERROR == Str(<<"GUARDRAILS ERROR">>)

\* What a guardrail validator does with a text: it passes it, fails it (which
\* on_fail=EXCEPTION turns into an exception), or raises something else.
ValidatorOutcomes == {"pass", "fail", "raise"}

\* Variant of apply_reading_time_guardrail: the except branch returns a
\* marker the caller does not compare against.
apply_reading_time_guardrail_typo(response_text, validator) ==
    IF validator = "pass"
    THEN [t |-> "ValidationOutcome", validated |-> response_text]
    ELSE Str(<<"GUARDRAIL ERROR">>)

\* guard.validate returns a ValidationOutcome object, never a str.
apply_topic_guardrail(prompt, validator) ==
    IF validator = "pass"
    THEN [t |-> "ValidationOutcome", validated |-> prompt]
    ELSE GUARDRAILS_ERROR

apply_reading_time_guardrail(response_text, validator) ==
    IF validator = "pass"
    THEN [t |-> "ValidationOutcome", validated |-> response_text]
    ELSE GUARDRAILS_ERROR

(* ------------------------------- tokens ------------------------------- *)

\* Variant of create_token: the uuid is left out of the token.
create_token_no_uuid(uuid, username) == <<"token-", 0, "-">> \o username.s

\* Variant of save_token: the mapping is rebound to the new entry alone.
save_token_rebind(tokens, token, username) == [k \in {token} |-> username]

\* Variant of verify_token: only an empty header is refused.
verify_token_any_header(tokens, x_auth_token) ==
    IF x_auth_token = <<>>
    THEN [ok |-> FALSE, status |-> 401]
    ELSE [ok |-> TRUE,
          username |-> IF x_auth_token \in DOMAIN tokens
                       THEN tokens[x_auth_token] ELSE Str(<<"anonymous">>)]

\* f"token-{uuid4()}-{username}"
create_token(uuid, username) == <<"token-", uuid, "-">> \o username.s

save_token(tokens, token, username) ==
    [k \in DOMAIN tokens \cup {token} |->
        IF k = token THEN username ELSE tokens[k]]

\* active_tokens.get(x_auth_token); a missing or falsy username is a 401.
verify_token(tokens, x_auth_token) ==
    LET username == IF x_auth_token \in DOMAIN tokens
                    THEN tokens[x_auth_token] ELSE PyNone
    IN IF ~Truthy(username)
       THEN [ok |-> FALSE, status |-> 401]
       ELSE [ok |-> TRUE, username |-> username]

(* ------------------------------ responses ----------------------------- *)

TopicRefusal ==
    <<"Sorry, I can only discuss topics related to Streamlit, FastAPI, or general programming. Please adjust your question.">>
ReadingTimeRefusal ==
    <<"The generated answer would take longer than 15 seconds to read. Please simplify or narrow down your question so I can provide a concise and focused response.">>
TopicSource == <<"guardrail:topic">>
ReadingTimeSource == <<"guardrail:reading_time">>

SYSTEM_PROMPT == Str(<<"You are a deployment assistant for Class 6 demos.">>)

\* What a request leaves behind besides its response: the argument of the
\* topic guardrail, the (reply, source) of invoke_agent, the argument of the
\* reading-time guardrail.
NoTrace == [topicArg |-> PyNone, agent |-> PyNone, readingArg |-> PyNone]

\* ChatResponse(reply=..., source=..., monitored=..., session_id=...): the
\* pydantic model declares session_id: str, so None does not validate.
ChatResponse(reply, source, monitored, session_id) ==
    [valid |-> reply.t = "str" /\ session_id.t = "str",
     reply |-> reply, source |-> source,
     monitored |-> monitored, session_id |-> session_id]

\* raise HTTPException(status_code=status)
HTTPException(status, calls, trace) ==
    [status |-> status, body |-> PyNone, calls |-> calls, trace |-> trace]

\* `return ChatResponse(...)`: 200 with the body, or the unhandled
\* ValidationError of the constructor, which the framework answers with 500.
Return(response, calls, trace) ==
    IF response.valid
    THEN [status |-> 200, body |-> response,
          calls |-> calls \o <<"ChatResponse">>, trace |-> trace]
    ELSE [status |-> 500, body |-> PyNone,
          calls |-> calls \o <<"ChatResponse">>, trace |-> trace]

(* -------------------------------- /chat ------------------------------- *)

\* Variant of topic_refusal: the auth_check result is passed on.
topic_refusal_monitored(monitored, session_id) ==
    ChatResponse(Str(TopicRefusal), TopicSource, monitored, session_id)

\* The response of the topic branch: monitored is the literal False.
topic_refusal(monitored, session_id) ==
    ChatResponse(Str(TopicRefusal), TopicSource, FALSE, session_id)

\* The response of the reading-time branch.
reading_time_refusal(monitored, session_id) ==
    ChatResponse(Str(ReadingTimeRefusal), ReadingTimeSource, monitored,
                 session_id)

\* The whole /chat handler, its verify_token dependency included.  env is
\* what the external services do for this request.
chat(tokens, runner, x_auth_token, payload, env) ==
    LET auth == verify_token(tokens, x_auth_token)
        message == strip(payload.message)
        session_id == payload.session_id
        monitored == env.auth_check
        guard_topic_result == apply_topic_guardrail(message, env.topic)
        agent == invoke_agent(runner, message, session_id, SYSTEM_PROMPT,
                              env.invocation)
        guard_length_result ==
            apply_reading_time_guardrail(agent.reply, env.reading)
        calls1 == <<"verify_token", "get_client", "auth_check",
                    "apply_topic_guardrail">>
        calls2 == calls1 \o <<"invoke_agent">> \o agent.calls
                         \o <<"apply_reading_time_guardrail">>
        trace1 == [topicArg |-> Str(message), agent |-> PyNone,
                   readingArg |-> PyNone]
        trace2 == [topicArg |-> Str(message), agent |-> agent,
                   readingArg |-> agent.reply]
    IN IF ~auth.ok THEN HTTPException(auth.status, <<"verify_token">>, NoTrace)
       ELSE IF message = <<>> THEN HTTPException(400, <<"verify_token">>, NoTrace)
       ELSE IF guard_topic_result = GUARDRAILS_ERROR THEN
            Return(topic_refusal(monitored, session_id), calls1, trace1)
       ELSE IF guard_length_result = GUARDRAILS_ERROR THEN
            Return(reading_time_refusal(monitored, session_id), calls2, trace2)
       ELSE Return(ChatResponse(agent.reply, agent.source, monitored,
                                session_id), calls2, trace2)

(* ------------------------------- /login ------------------------------- *)

\* Variant of login_check: `and` instead of `or` between the comparisons.
login_check_and(cfgUser, cfgPass, credentials) ==
    IF ~Truthy(cfgUser) \/ ~Truthy(cfgPass) THEN 500
    ELSE IF credentials.username # cfgUser /\ credentials.password # cfgPass
         THEN 401
    ELSE 0

\* The two checks that open login(): 500, 401, or 0 when both pass.
login_check(cfgUser, cfgPass, credentials) ==
    IF ~Truthy(cfgUser) \/ ~Truthy(cfgPass) THEN 500
    ELSE IF credentials.username # cfgUser \/ credentials.password # cfgPass
         THEN 401
    ELSE 0

(* ------------------------------- inputs ------------------------------- *)

ConfiguredUsernames == {PyNone, Str(<<>>), Str(<<"alice">>)}
ConfiguredPasswords == {PyNone, Str(<<>>), Str(<<"pw">>)}

\* LoginRequest bodies.
Credentials ==
    [username : {Str(<<"alice">>), Str(<<"bob">>), Str(<<>>)},
     password : {Str(<<"pw">>), Str(<<"bad">>), Str(<<>>)}]

NoCredentials == [username |-> Str(<<>>), password |-> Str(<<>>)]

\* X-Auth-Token values: empty, not of the token format, and every value of
\* the token format, whether create_token has produced it yet or not.
Headers ==
    {<<>>, <<"forged">>, create_token(1, Str(<<"bob">>))}
    \cup {create_token(n, Str(<<"alice">>)) : n \in 1..MaxLogins}

\* ChatRequest.message
Messages ==
    {<<>>, <<" ", "\n">>, <<" ", "Streamlit", " ">>, <<"hello">>,
     <<"Deploy", " ", "monitor", "\n">>}

\* ChatRequest.session_id: Optional[str] = None
SessionIds == {PyNone, Str(<<"s1">>)}

Payloads == [message : Messages, session_id : SessionIds]

\* The content of the agent's last message.
Contents ==
    {Str(<<"answer">>), Str(<<>>), Str(<<" ">>), PyNone,
     [t |-> "list", items |-> <<>>],
     [t |-> "list", items |-> <<Str(<<" ">>),
                                [t |-> "dict", hasText |-> TRUE, text |-> Str(<<>>)]>>],
     [t |-> "list", items |-> <<[t |-> "other"],
                                [t |-> "dict", hasText |-> TRUE, text |-> Str(<<"answer">>)],
                                Str(<<" ">>)>>],
     [t |-> "dict", hasText |-> TRUE, text |-> Str(<<>>)],
     [t |-> "dict", hasText |-> FALSE, text |-> PyNone]}

\* What agent_runner.invoke returns: not a dict, a dict without "messages",
\* with an empty list, with a last message that has a content attribute, or
\* with a last message that has none.
Results ==
    {[t |-> "other"],
     [t |-> "dict", hasMessages |-> FALSE, messages |-> <<>>],
     [t |-> "dict", hasMessages |-> TRUE, messages |-> <<>>],
     [t |-> "dict", hasMessages |-> TRUE,
      messages |-> <<Str(<<"hello">>), Str(<<"raw">>)>>]}
    \cup {[t |-> "dict", hasMessages |-> TRUE,
           messages |-> <<Str(<<"hello">>), [t |-> "msg", content |-> c]>>] :
          c \in Contents}

NotInvoked == [t |-> "not invoked"]

Invocations ==
    {[t |-> "raise"]} \cup {[t |-> "return", result |-> r] : r \in Results}

\* The invocations a /chat request draws from: the runner raises, answers
\* with a text, answers with an empty text, answers with no messages.
ChatInvocations ==
    {[t |-> "raise"],
     [t |-> "return", result |->
        [t |-> "dict", hasMessages |-> TRUE,
         messages |-> <<[t |-> "msg", content |-> Str(<<"answer">>)]>>]],
     [t |-> "return", result |->
        [t |-> "dict", hasMessages |-> TRUE,
         messages |-> <<[t |-> "msg", content |-> Str(<<>>)]>>]],
     [t |-> "return", result |->
        [t |-> "dict", hasMessages |-> TRUE, messages |-> <<>>]]}

\* The services are consulted in the handler's order, so what a service
\* would have done is drawn only for a request that reaches it.
NoEnv ==
    [auth_check |-> FALSE, topic |-> "pass", invocation |-> NotInvoked,
     reading |-> "pass"]

Envs(runner) ==
    [auth_check : BOOLEAN, topic : ValidatorOutcomes \ {"pass"},
     invocation : {NotInvoked}, reading : {"pass"}]
    \cup
    [auth_check : BOOLEAN, topic : {"pass"},
     invocation : IF runner = PyNone THEN {NotInvoked} ELSE ChatInvocations,
     reading : ValidatorOutcomes]

(* ------------------------------- machine ------------------------------ *)

NoRequest == [kind |-> "none", req |-> PyNone, out |-> [status |-> 0]]

Init ==
    /\ AGENT_API_USERNAME \in ConfiguredUsernames
    /\ AGENT_API_PASSWORD \in ConfiguredPasswords
    /\ agent_runner \in {build_agent_runner(e) : e \in StartupEnvs}
    /\ active_tokens = [k \in {} |-> PyNone]
    /\ uuids = 0
    /\ loginPc = [t \in Threads |-> "idle"]
    /\ loginTok = [t \in Threads |-> <<>>]
    /\ loginCred = [t \in Threads |-> NoCredentials]
    /\ returned = {}
    /\ resp = NoRequest

Health ==
    /\ resp' = [kind |-> "health", req |-> PyNone, out |-> [status |-> 200]]
    /\ UNCHANGED <<AGENT_API_USERNAME, AGENT_API_PASSWORD, agent_runner,
                   active_tokens, uuids, loginPc, loginTok, loginCred, returned>>

\* login() up to and including create_token: a thread takes a request, fails
\* it with 500 or 401, or draws the uuid of its token.
LoginStart(t) ==
    /\ loginPc[t] = "idle"
    /\ \E credentials \in Credentials :
        LET status == login_check(AGENT_API_USERNAME, AGENT_API_PASSWORD,
                                  credentials)
        IN IF status # 0
           THEN /\ resp' = [kind |-> "login", req |-> credentials,
                            out |-> [status |-> status, token |-> <<>>]]
                /\ UNCHANGED <<uuids, loginPc, loginTok, loginCred>>
           ELSE /\ uuids < MaxLogins
                /\ uuids' = uuids + 1
                /\ loginTok' = [loginTok EXCEPT
                       ![t] = create_token(uuids + 1, credentials.username)]
                /\ loginCred' = [loginCred EXCEPT ![t] = credentials]
                /\ loginPc' = [loginPc EXCEPT ![t] = "created"]
                /\ UNCHANGED resp
    /\ UNCHANGED <<AGENT_API_USERNAME, AGENT_API_PASSWORD, agent_runner,
                   active_tokens, returned>>

\* The rest of login(): save_token, then the LoginResponse.
LoginFinish(t) ==
    /\ loginPc[t] = "created"
    /\ active_tokens' = save_token(active_tokens, loginTok[t],
                                   loginCred[t].username)
    /\ returned' = returned \cup {<<loginTok[t], loginCred[t].username>>}
    /\ resp' = [kind |-> "login", req |-> loginCred[t],
                out |-> [status |-> 200, token |-> loginTok[t]]]
    /\ loginPc' = [loginPc EXCEPT ![t] = "idle"]
    /\ loginTok' = [loginTok EXCEPT ![t] = <<>>]
    /\ loginCred' = [loginCred EXCEPT ![t] = NoCredentials]
    /\ UNCHANGED <<AGENT_API_USERNAME, AGENT_API_PASSWORD, agent_runner, uuids>>

ReturnedTokens == {p[1] : p \in returned}

\* One /chat request.  It reads active_tokens once, in verify_token, and
\* shares nothing else, so it is one step among the threads' steps.
Chat ==
    /\ \E x_auth_token \in Headers, payload \in Payloads :
        LET rejected == \/ ~verify_token(active_tokens, x_auth_token).ok
                        \/ strip(payload.message) = <<>>
        IN \E env \in IF rejected THEN {NoEnv} ELSE Envs(agent_runner) :
            resp' = [kind |-> "chat",
                     req |-> [x_auth_token |-> x_auth_token,
                              payload |-> payload, env |-> env,
                              issued |-> x_auth_token \in ReturnedTokens],
                     out |-> chat(active_tokens, agent_runner, x_auth_token,
                                  payload, env)]
    /\ UNCHANGED <<AGENT_API_USERNAME, AGENT_API_PASSWORD, agent_runner,
                   active_tokens, uuids, loginPc, loginTok, loginCred, returned>>

Next ==
    \/ Health
    \/ \E t \in Threads : LoginStart(t)
    \/ \E t \in Threads : LoginFinish(t)
    \/ Chat

Spec == Init /\ [][Next]_vars

\* invoke_agent on its own, over every kind of result the runner can give.
InvokeAgent ==
    /\ \E message \in {strip(m) : m \in Messages} \ {<<>>},
          session_id \in SessionIds,
          invocation \in Invocations :
        resp' = [kind |-> "invoke_agent",
                 req |-> [message |-> message, session_id |-> session_id,
                          invocation |-> invocation],
                 out |-> invoke_agent(agent_runner, message, session_id,
                                      SYSTEM_PROMPT, invocation)]
    /\ UNCHANGED <<AGENT_API_USERNAME, AGENT_API_PASSWORD, agent_runner,
                   active_tokens, uuids, loginPc, loginTok, loginCred, returned>>

NextAgent == InvokeAgent

SpecAgent == Init /\ [][NextAgent]_vars

(* ------------------------------- claims ------------------------------- *)

IsChat == resp.kind = "chat"

IsLogin == resp.kind = "login"

Positions(calls, fn) == {i \in 1..Len(calls) : calls[i] = fn}

Before(calls, f, g) ==
    \A i \in Positions(calls, f), j \in Positions(calls, g) : i < j

\* A step that handles a /chat (or /login) request whose outcome is new.
ChatStep == resp' # resp /\ resp'.kind = "chat"

LoginStep == resp' # resp /\ resp'.kind = "login"

AgentSources == {LanggraphSource, RuleBasedSource}

\* Both server credentials are set; a submitted pair equals them.
Configured == Truthy(AGENT_API_USERNAME) /\ Truthy(AGENT_API_PASSWORD)

Matches(c) ==
    c.username = AGENT_API_USERNAME /\ c.password = AGENT_API_PASSWORD

\* C1: a /chat request runs authenticate, topic guardrail, agent, reading-time
\* guardrail, response in that order: the agent is invoked at most once, only
\* for an accepted token and a message the topic validator passed, and the
\* reading-time guardrail runs after the agent and before the response.
C1_StepOrder ==
    IsChat =>
        LET c == resp.out.calls
        IN /\ Cardinality(Positions(c, "invoke_agent")) <= 1
           /\ Cardinality(Positions(c, "agent_runner.invoke")) <= 1
           /\ Positions(c, "verify_token") = {1}
           /\ \A i \in Positions(c, "invoke_agent")
                       \cup Positions(c, "agent_runner.invoke") :
                /\ resp.req.issued
                /\ resp.req.env.topic = "pass"
                /\ \E j \in Positions(c, "apply_topic_guardrail") : j < i
           /\ Before(c, "verify_token", "apply_topic_guardrail")
           /\ Before(c, "invoke_agent", "agent_runner.invoke")
           /\ Before(c, "agent_runner.invoke", "apply_reading_time_guardrail")
           /\ \A i \in Positions(c, "apply_reading_time_guardrail") :
                \E j \in Positions(c, "invoke_agent") : j < i
           /\ Before(c, "apply_reading_time_guardrail", "ChatResponse")
           /\ Positions(c, "ChatResponse") \subseteq {Len(c)}
           /\ (resp.out.status = 200 /\ resp.out.body.source \in AgentSources)
                => Positions(c, "apply_reading_time_guardrail") # {}

C1_Witness ==
    /\ IsChat
    /\ resp.out.status = 200
    /\ resp.out.body.source = LanggraphSource
    /\ Positions(resp.out.calls, "agent_runner.invoke") # {}

\* C2: a /chat request gets past verify_token only with a token an earlier
\* successful /login returned; with any other header value it ends in 401
\* with no tracing, guardrail or agent call, and active_tokens is unchanged.
C2_OnlyIssuedTokens ==
    /\ [](IsChat =>
            /\ resp.out.status # 401 => resp.req.issued
            /\ ~resp.req.issued =>
                /\ resp.out.status = 401
                /\ resp.out.calls = <<"verify_token">>
                /\ resp.out.trace = NoTrace)
    /\ [][(ChatStep /\ resp'.out.status = 401)
            => active_tokens' = active_tokens]_vars

C2_Witness ==
    /\ IsChat
    /\ resp.out.status = 401
    /\ resp.req.x_auth_token \notin {<<>>, <<"forged">>}
    /\ DOMAIN active_tokens # {}

\* C3: /login stores a token exactly when both server credentials are set and
\* the submitted pair equals them; 500 when a server credential is missing,
\* 401 on a mismatch, and a failed login leaves active_tokens unchanged.
C3_LoginOutcome ==
    /\ [](/\ IsLogin =>
               /\ resp.out.status = 200 <=> (Configured /\ Matches(resp.req))
               /\ ~Configured => resp.out.status = 500
               /\ (Configured /\ ~Matches(resp.req)) => resp.out.status = 401
               /\ resp.out.status = 200 =>
                     /\ resp.out.token \in DOMAIN active_tokens
                     /\ active_tokens[resp.out.token] = resp.req.username
          /\ \A t \in Threads : loginPc[t] = "created" =>
                 Configured /\ Matches(loginCred[t])
          /\ (DOMAIN active_tokens # {} \/ uuids > 0) => Configured)
    /\ [][(LoginStep /\ resp'.out.status # 200)
            => (active_tokens' = active_tokens /\ uuids' = uuids)]_vars
    /\ [][active_tokens' # active_tokens
            => (LoginStep /\ resp'.out.status = 200)]_vars

C3_Witness ==
    /\ IsLogin
    /\ resp.out.status = 200
    /\ resp.out.token \in DOMAIN active_tokens

\* C4: no eviction: every token a successful /login has returned is still a
\* key of active_tokens, mapped to the username it was issued for, and still
\* accepted by verify_token; a later login never removes or remaps one.
C4_NoEviction ==
    /\ \A p \in returned :
        /\ p[1] \in DOMAIN active_tokens
        /\ active_tokens[p[1]] = p[2]
        /\ verify_token(active_tokens, p[1]) = [ok |-> TRUE, username |-> p[2]]
    /\ (IsLogin /\ resp.out.status = 200) =>
            <<resp.out.token, resp.req.username>> \in returned

C4_Witness ==
    /\ IsChat
    /\ \E p, q \in returned : p[1] # q[1] /\ p[2] = q[2]

AllSources == {TopicSource, ReadingTimeSource, LanggraphSource, RuleBasedSource}

OnlyWhitespace(s) == \A i \in 1..Len(s) : IsWhitespace(s[i])

\* C5: a /chat request with a valid token and a message that is not blank,
\* with or without session_id, ends in a ChatResponse carrying a reply, one of
\* the four sources, a boolean monitored flag and the request's session_id.
C5_AlwaysChatResponse ==
    (IsChat /\ resp.req.issued /\ ~OnlyWhitespace(resp.req.payload.message)) =>
        /\ resp.out.status = 200
        /\ resp.out.body.reply.t = "str"
        /\ resp.out.body.source \in AllSources
        /\ resp.out.body.monitored \in BOOLEAN
        /\ resp.out.body.session_id = resp.req.payload.session_id

AgentAnswered(runner, invocation) ==
    /\ runner # PyNone
    /\ invocation.t = "return"
    /\ invocation.result.t = "dict"
    /\ invocation.result.hasMessages
    /\ invocation.result.messages # <<>>
    /\ LET ms == invocation.result.messages
           text == _content_to_text(ContentOf(ms[Len(ms)]))
       IN text.t = "str" /\ Len(text.s) > 0

\* The fallback replies, by the keyword the lower-cased message holds.
ExpectedOffline(message) ==
    LET has(w) == \E i \in 1..Len(message) : message[i] \in w
    IN IF has({"streamlit", "Streamlit"}) THEN OfflineStreamlit
       ELSE IF has({"fastapi", "FastAPI"}) THEN OfflineFastAPI
       ELSE IF has({"langfuse", "monitor"}) THEN OfflineLangfuse
       ELSE IF has({"deploy", "Deploy"}) THEN OfflineDeploy
       ELSE OfflineDefault

\* C7: invoke_agent returns source langgraph:<model> exactly when the runner
\* exists, did not raise and yielded a non-empty final text, and then returns
\* that text; otherwise it returns the rule-based reply for the message with
\* source rule-based.  It never returns an error.
C7_AgentFallback ==
    resp.kind = "invoke_agent" =>
        LET answered == AgentAnswered(agent_runner, resp.req.invocation)
        IN /\ resp.out.source = LanggraphSource <=> answered
           /\ resp.out.source \in AgentSources
           /\ resp.out.reply.t = "str"
           /\ answered =>
                LET ms == resp.req.invocation.result.messages
                IN resp.out.reply = _content_to_text(ContentOf(ms[Len(ms)]))
           /\ ~answered =>
                /\ resp.out.source = RuleBasedSource
                /\ resp.out.reply = Str(ExpectedOffline(resp.req.message))

C7_Witness ==
    /\ resp.kind = "invoke_agent"
    /\ agent_runner # PyNone
    /\ resp.req.invocation.t = "return"
    /\ resp.req.invocation.result.t = "dict"
    /\ resp.req.invocation.result.messages # <<>>
    /\ resp.out.source = RuleBasedSource
    /\ resp.out.reply = Str(OfflineLangfuse)

\* C8: in a /chat response monitored is true exactly when auth_check
\* succeeded and the message passed the topic guardrail: a guardrail:topic
\* response has monitored false and no trace span; the other three sources
\* carry the auth_check result.
C8_MonitoredFlag ==
    (IsChat /\ resp.out.status = 200) =>
        /\ resp.out.body.monitored <=>
              (resp.req.env.auth_check /\ resp.req.env.topic = "pass")
        /\ resp.out.body.source = TopicSource <=> resp.req.env.topic # "pass"
        /\ resp.out.body.source = TopicSource =>
              /\ resp.out.body.monitored = FALSE
              /\ Positions(resp.out.calls, "start_as_current_span") = {}
        /\ resp.out.body.source # TopicSource =>
              /\ resp.out.body.monitored = resp.req.env.auth_check
              /\ Positions(resp.out.calls, "auth_check") # {}

C8_Witness ==
    /\ IsChat
    /\ resp.out.status = 200
    /\ resp.out.body.source = TopicSource
    /\ resp.req.env.auth_check
    /\ ~resp.out.body.monitored

\* s without its leading and trailing whitespace is exactly t.
StrippedTo(s, t) ==
    /\ t # <<>>
    /\ ~IsWhitespace(t[1]) /\ ~IsWhitespace(t[Len(t)])
    /\ \E i \in 1..Len(s) :
        /\ i + Len(t) - 1 <= Len(s)
        /\ SubSeq(s, i, i + Len(t) - 1) = t
        /\ \A k \in 1..Len(s) :
             (k < i \/ k > i + Len(t) - 1) => IsWhitespace(s[k])

\* C9: an authenticated /chat request with an empty or blank message ends in
\* 400 before any tracing, guardrail or agent call; with a token that is not
\* in the map the same message ends in 401; the topic guardrail and the agent
\* are given the stripped message.
C9_BlankMessage ==
    IsChat =>
        /\ (resp.req.issued /\ OnlyWhitespace(resp.req.payload.message)) =>
            /\ resp.out.status = 400
            /\ resp.out.calls = <<"verify_token">>
            /\ resp.out.trace = NoTrace
        /\ resp.out.status = 400 =>
            (resp.req.issued /\ OnlyWhitespace(resp.req.payload.message))
        /\ ~resp.req.issued => resp.out.status = 401
        /\ resp.out.trace.topicArg # PyNone =>
            StrippedTo(resp.req.payload.message, resp.out.trace.topicArg.s)
        /\ resp.out.trace.agent # PyNone =>
            StrippedTo(resp.req.payload.message, resp.out.trace.agent.input)

C9_Witness ==
    /\ IsChat
    /\ resp.out.status = 400
    /\ resp.req.payload.message # <<>>

InFlight == {t \in Threads : loginPc[t] = "created"}

\* C10: under any interleaving of the threads' create_token and save_token
\* steps no update is lost: the tokens of the logins that returned are
\* pairwise distinct, distinct from those still in flight, and all present in
\* active_tokens; a /chat with a token that had been returned is never 401.
C10_NoLostUpdate ==
    /\ Cardinality(ReturnedTokens) + Cardinality(InFlight) = uuids
    /\ Cardinality(returned) = Cardinality(ReturnedTokens)
    /\ \A t \in InFlight : loginTok[t] \notin ReturnedTokens
    /\ \A t, u \in InFlight : t # u => loginTok[t] # loginTok[u]
    /\ ReturnedTokens = DOMAIN active_tokens
    /\ (IsChat /\ resp.req.issued) => resp.out.status # 401

\* A login that drew its uuid first is still in flight after a later one
\* has stored its token and returned.
C10_Witness ==
    /\ IsLogin
    /\ resp.out.status = 200
    /\ \E t \in InFlight : loginTok[t][2] < resp.out.token[2]

====
